---- MODULE Spec2Model ----
(***************************************************************************)
(* Model of conso_elec.  The consumption import:                           *)
(*   analytics/calculations.py  import_data_with_duplicates_management,    *)
(*                              import_data_to_db                          *)
(*   front/streamlit_app.py     handle_conflict_block, main                *)
(*   db/database.py             ConsumptionRecord, get_session             *)
(* the weather gap filler (SpecWeather):                                   *)
(*   analytics/weather_to_consumption.py, extraction/weather.py            *)
(* the base load (SpecTalon) and the metrics (SpecMetrics):                *)
(*   analytics/calculations.py, analytics/metrics.py,                      *)
(*   front/streamlit_app.py, dash_app/app.py                               *)
(* the period totals (SpecTotals), the Dash callback with its resampling   *)
(* (SpecDash), the settings sidebar (SpecSettings), and two models of      *)
(* sessions running side by side: get_or_create_settings (SpecSingleton)   *)
(* and the import (SpecConcurrent).                                        *)
(*                                                                         *)
(* In the import model:                                                    *)
(* Consumption values are fixed-point integers counted in units of         *)
(* 1e-7 kWh, so the tolerance 1e-6 of the reconciler is 10 units.          *)
(* Timestamps are half-hour slot numbers.                                  *)
(***************************************************************************)
EXTENDS Integers, Sequences, FiniteSets, TLC

\* ------------------------------------------------------------------ bounds
\* longest import batch (rows of one DataFrame)
MaxBatch == 2
\* most rows import_data_to_db may bring the table to
MaxStore == 3

\* ------------------------------------------------------- program constants
\* calculations.py:68  abs(existing - new) < 1e-6, in units of 1e-7
TOLERANCE == 10

\* --------------------------------------------------------- the input cells
\* Cells of column 'Début': two well-formed timestamps and one that does
\* not match "%d/%m/%Y %H:%M:%S".
DebutCells == {"01/01/2024 00:00:00", "01/01/2024 00:30:00", "2024-01-01T00:00"}
\* Cells of column 'Fin'.
FinCells == {"01/01/2024 00:30:00"}
\* Cells of column 'Valeur (en kW)': comma or dot as decimal separator, and
\* one that is not a number.
ValeurCells == {"-0,0000001", "0,0000009", "0.000001", "abc"}

\* The rows a batch is made of: every well-formed row, one row with a
\* malformed timestamp and one row with a non-numeric value.
RawRows ==
    {r \in [Debut : DebutCells, Fin : FinCells, Valeur : ValeurCells] :
        \/ r.Debut # "2024-01-01T00:00" /\ r.Valeur # "abc"
        \/ r.Debut = "2024-01-01T00:00" /\ r.Valeur = "0,0000009"
        \/ r.Debut = "01/01/2024 00:00:00" /\ r.Valeur = "abc"}

RECURSIVE SeqsUpTo(_, _)
SeqsUpTo(S, n) ==
    IF n = 0 THEN {<<>>}
    ELSE LET shorter == SeqsUpTo(S, n - 1)
         IN  shorter \cup {Append(b, r) : b \in {x \in shorter : Len(x) = n - 1}, r \in S}

Batches == SeqsUpTo(RawRows, MaxBatch)

\* -------------------------------------------------------- the record parser
\* str(cell).replace(',', '.')
ReplaceComma(s) ==
    CASE s = "-0,0000001" -> "-0.0000001"
      [] s = "0,0000009"  -> "0.0000009"
      [] OTHER            -> s

\* float(s) succeeds
FloatOk(s) == s \in {"-0.0000001", "0.0000009", "0.000001"}

\* float(s), in units of 1e-7
FloatVal(s) ==
    CASE s = "-0.0000001" -> -1
      [] s = "0.0000009"  -> 9
      [] s = "0.000001"   -> 10
      [] OTHER            -> 0

\* datetime.strptime(s, "%d/%m/%Y %H:%M:%S") succeeds
StrptimeOk(s) == s \in {"01/01/2024 00:00:00", "01/01/2024 00:30:00"}

\* datetime.strptime(s, "%d/%m/%Y %H:%M:%S"), as a half-hour slot number
StrptimeVal(s) ==
    CASE s = "01/01/2024 00:00:00" -> 0
      [] s = "01/01/2024 00:30:00" -> 1
      [] OTHER                     -> 0

\* The row parses: neither float() nor strptime() raises ValueError.
RowOk(row) ==
    /\ FloatOk(ReplaceComma(row.Valeur))
    /\ StrptimeOk(row.Debut)
    /\ StrptimeOk(row.Fin)

Abs(x) == IF x < 0 THEN -x ELSE x

\* ------------------------------------------------------------------- state
VARIABLES
    db,              \* committed rows of table 'consumption', in insertion order
    tx,              \* rows added to the session and not yet committed
    last,            \* the call that has just returned or raised: what it
                     \* was given and what it did; op = "none" once the
                     \* caller has moved on
    reading_times,   \* start times of table 'consumption' as the weather
                     \* gap filler reads them (half hours since day 0)
    weather,         \* column 'time' of table 'weather' (half hours since day 0)
    wlast,           \* the last run of integrate_weather_with_consumption
    consumptions,    \* a consumption series as a bag: value -> occurrences
    talons,          \* what the two base-load functions return for it
    df,              \* the series a front end computes its metrics from
    settings,        \* the row of table 'settings'
    metrics,         \* what the metric functions return for df and settings
    settings_table,  \* the rows of table 'settings', in insertion order
    callers,         \* where each caller of get_or_create_settings stands
    imports,         \* where each of the concurrent import sessions stands
    write_lock       \* the session that holds the write lock of the
                     \* database file (0: nobody)

import_vars == <<db, tx, last>>
weather_vars == <<reading_times, weather, wlast>>
talon_vars == <<consumptions, talons>>
metric_vars == <<df, settings, metrics>>
process_vars == <<settings_table, callers, imports, write_lock>>

vars == <<db, tx, last, reading_times, weather, wlast, consumptions, talons,
          df, settings, metrics, settings_table, callers, imports, write_lock>>

\* ConsumptionRecord with the two timestamps exchanged.
ConsumptionRecord_swapped(start_time, end_time, consumption_kwh) ==
    [start_time |-> end_time, end_time |-> start_time,
     consumption_kwh |-> consumption_kwh, orphan |-> FALSE]

\* A ConsumptionRecord.  'orphan' is bookkeeping of the model (the table
\* has no such column): the import call that added the record raised.
ConsumptionRecord(start_time, end_time, consumption_kwh) ==
    [start_time |-> start_time, end_time |-> end_time,
     consumption_kwh |-> consumption_kwh, orphan |-> FALSE]

\* Marks the records a call added before it raised.
Orphaned(rows) == [j \in 1..Len(rows) |-> [rows[j] EXCEPT !.orphan = TRUE]]

\* The record kept of an operation.  'view' is what the session saw before
\* it; 'repeat' says that the operation is an import given the same batch
\* as the successful import right before it, and 'prior' is then the
\* conflict list that one returned.
Done(op, batch, status, conflicts, view, choice) ==
    [op |-> op, batch |-> batch, status |-> status, conflicts |-> conflicts,
     view |-> view, choice |-> choice,
     repeat |-> (op = "import" /\ last.op = "import" /\ last.status = "ok"
                 /\ last.batch = batch),
     prior |-> IF op = "import" /\ last.op = "import" /\ last.status = "ok"
                  /\ last.batch = batch
               THEN last.conflicts ELSE <<>>]

None == [op |-> "none", batch |-> <<>>, status |-> "ok", conflicts |-> <<>>,
         view |-> <<>>, choice |-> "", repeat |-> FALSE, prior |-> <<>>]

\* The calendar days of the model and the half hours of a day.
MaxDays == 2
Days == 0..(MaxDays - 1)
SlotsPerDay == 48

\* What the weather provider does with the request for one day.
Outcomes == {"data", "error"}

\* No run of integrate_weather_with_consumption yet.
\* 'before' is the weather table the run found and 'follows' says that the
\* run came right after a run that completed.
NoRun == [op |-> "none", missing |-> {}, order |-> <<>>,
          provider |-> [d \in Days |-> "data"], status |-> "ok",
          requested |-> <<>>, before |-> {}, follows |-> FALSE]

\* The values of a consumption series, in tenths of a kWh.
SeriesValues == {1, 2, 3}

\* No series has been given to the base-load functions yet.
NoTalons == [op |-> "none"]

\* The row get_or_create_settings creates when table 'settings' is empty:
\* costs in 1e-4 EUR per kWh, times in minutes after midnight.
get_or_create_settings ==
    [hp_cost |-> 2700, hc_cost |-> 2068, hp_start |-> 435, hp_end |-> 1410,
     solar_wc |-> 0, solar_efficiency |-> 80, solar_cost |-> 0]

\* No metric has been computed yet.
NoMetrics == [op |-> "none"]

\* The script runs and callbacks that call get_or_create_settings, each
\* with a session of its own: two browser sessions of the Streamlit page
\* and the callback of the Dash page.
Callers == {"streamlit", "streamlit_2", "dash"}

\* A caller that is not running.  'row' is the position in the table of
\* the row the call returned (0: none), 'created' says that the call
\* added it, 'before' and 'after' are the table as the call's query found
\* it and as the call left it.
Idle == [pc |-> "idle", row |-> 0, created |-> FALSE, before |-> <<>>, after |-> <<>>]

\* The two import sessions that run side by side.
ImportSessions == {1, 2}

\* An import session that is not running.  'pending' are the records added
\* to the session and not yet flushed, 'flushed' the records it has
\* inserted in its open transaction, 'existing' the result of its last
\* lookup.
NotImporting ==
    [pc |-> "idle", batch |-> <<>>, i |-> 1, pending |-> <<>>, flushed |-> <<>>,
     existing |-> <<>>, conflicts |-> <<>>]

Init ==
    /\ db = <<>>
    /\ tx = <<>>
    /\ last = None
    /\ reading_times = {}
    /\ weather = {}
    /\ wlast = NoRun
    /\ consumptions = [v \in SeriesValues |-> 0]
    /\ talons = NoTalons
    /\ df = <<>>
    /\ settings = get_or_create_settings
    /\ metrics = NoMetrics
    /\ settings_table = <<>>
    /\ callers = [c \in Callers |-> Idle]
    /\ imports = [s \in ImportSessions |-> NotImporting]
    /\ write_lock = 0

\* What a query on the session sees: the committed rows and, because the
\* session autoflushes before a query, its own uncommitted rows.
View == db \o tx

\* Matching with end_time compared to the start of the incoming row.
Matching_typo(rows, start_time, end_time) ==
    SelectSeq(rows, LAMBDA r : r.start_time = start_time /\ r.end_time = start_time)

\* session.query(ConsumptionRecord).filter(start_time ==, end_time ==)
Matching(rows, start_time, end_time) ==
    SelectSeq(rows, LAMBDA r : r.start_time = start_time /\ r.end_time = end_time)

\* ------------------------------------ import_data_with_duplicates_management
\* Identical with the bound included.
Identical_inclusive(existing_value, consumption) ==
    Abs(existing_value - consumption) <= TOLERANCE

\* abs(existing_record.consumption_kwh - consumption) < 1e-6
Identical(existing_value, consumption) ==
    Abs(existing_value - consumption) < TOLERANCE

\* AppendConflict with the two values exchanged.
AppendConflict_swapped(conflicts, start_time, end_time, existing_value, new_value) ==
    Append(conflicts, [start_time |-> start_time, end_time |-> end_time,
                       existing_value |-> new_value, new_value |-> existing_value])

\* AppendConflict inserting at the head of the list.
AppendConflict_front(conflicts, start_time, end_time, existing_value, new_value) ==
    <<[start_time |-> start_time, end_time |-> end_time,
       existing_value |-> existing_value, new_value |-> new_value]>> \o conflicts

\* conflicts.append({...})
AppendConflict(conflicts, start_time, end_time, existing_value, new_value) ==
    Append(conflicts, [start_time |-> start_time, end_time |-> end_time,
                       existing_value |-> existing_value, new_value |-> new_value])

\* The loop over df.iterrows() from row i on.  'view' is what the session
\* sees before the call, 'added' the records added so far by this call,
\* 'conflicts' the conflicts collected so far.
RECURSIVE ImportLoop(_, _, _, _, _)
ImportLoop(view, batch, i, added, conflicts) ==
    IF i > Len(batch)
    THEN [status |-> "ok", added |-> added, conflicts |-> conflicts]
    ELSE
      LET row == batch[i]
          consumption_str == ReplaceComma(row.Valeur)
      IN
      IF ~FloatOk(consumption_str) \/ ~StrptimeOk(row.Debut) \/ ~StrptimeOk(row.Fin)
      THEN [status |-> "ValueError", added |-> added, conflicts |-> conflicts]
      ELSE
        LET consumption == FloatVal(consumption_str)
            start_time  == StrptimeVal(row.Debut)
            end_time    == StrptimeVal(row.Fin)
            found       == Matching(view \o added, start_time, end_time)
        IN
        IF Len(found) > 1
        THEN [status |-> "MultipleResultsFound", added |-> added, conflicts |-> conflicts]
        ELSE IF Len(found) = 1
        THEN
          IF Identical(found[1].consumption_kwh, consumption)
          THEN ImportLoop(view, batch, i + 1, added, conflicts)
          ELSE ImportLoop(view, batch, i + 1, added,
                          AppendConflict(conflicts, start_time, end_time,
                                         found[1].consumption_kwh, consumption))
        ELSE ImportLoop(view, batch, i + 1,
                        Append(added, ConsumptionRecord(start_time, end_time, consumption)),
                        conflicts)

\* One call import_data_with_duplicates_management(df, session).  When the
\* loop ends, session.commit() commits everything the session holds; when a
\* row raises, the exception leaves the function and the records added so
\* far stay in the session, uncommitted.
import_data_with_duplicates_management(batch) ==
    LET res == ImportLoop(View, batch, 1, <<>>, <<>>)
    IN  /\ IF res.status = "ok"
           THEN /\ db' = db \o tx \o res.added
                /\ tx' = <<>>
           ELSE /\ db' = db
                /\ tx' = tx \o Orphaned(res.added)
        /\ last' = Done("import", batch, res.status, res.conflicts, View, "")
        /\ UNCHANGED <<weather_vars, talon_vars, metric_vars, process_vars>>

\* The caller imports a DataFrame.
import_file(batch) ==
    /\ last.op = "none"
    /\ import_data_with_duplicates_management(batch)

\* The caller imports the DataFrame it has just imported once more.
import_again ==
    /\ last.op = "import"
    /\ last.status = "ok"
    /\ import_data_with_duplicates_management(last.batch)

\* The caller goes on after a call, or after the exception it raised.
main_continue ==
    /\ last.op # "none"
    /\ last' = None
    /\ UNCHANGED <<db, tx>>
    /\ UNCHANGED <<weather_vars, talon_vars, metric_vars, process_vars>>

\* ------------------------------------------------------- import_data_to_db
\* The loop of import_data_to_db: every row is parsed into a record of the
\* local list 'records'; nothing is looked up.
RECURSIVE BulkLoop(_, _, _)
BulkLoop(batch, i, records) ==
    IF i > Len(batch)
    THEN [status |-> "ok", records |-> records]
    ELSE
      LET row == batch[i]
          consumption_str == ReplaceComma(row.Valeur)
      IN
      IF ~FloatOk(consumption_str) \/ ~StrptimeOk(row.Debut) \/ ~StrptimeOk(row.Fin)
      THEN [status |-> "ValueError", records |-> records]
      ELSE BulkLoop(batch, i + 1,
                    Append(records,
                           ConsumptionRecord(StrptimeVal(row.Debut), StrptimeVal(row.Fin),
                                             FloatVal(consumption_str))))

\* One call import_data_to_db(df, session): bulk_save_objects and commit
\* after the loop; a row that raises leaves the session as it was.
import_data_to_db(batch) ==
    /\ last.op = "none"
    /\ Len(View) + Len(batch) <= MaxStore
    /\ LET res == BulkLoop(batch, 1, <<>>)
       IN  /\ IF res.status = "ok"
              THEN /\ db' = db \o tx \o res.records
                   /\ tx' = <<>>
              ELSE UNCHANGED <<db, tx>>
           /\ last' = Done("bulk", batch, res.status, <<>>, View, "")
    /\ UNCHANGED <<weather_vars, talon_vars, metric_vars, process_vars>>

\* --------------------------------------------------- handle_conflict_block
\* the options of the selectbox "Quelle valeur conserver ?"
Choices == {"Existante", "Nouvelle", "Ignorer"}

\* TakesNew for every choice but "Ignorer".
TakesNew_notIgnorer(choice) == choice # "Ignorer"

\* if choice == "Nouvelle"
TakesNew(choice) == choice = "Nouvelle"

\* rec.consumption_kwh = conflict['new_value'] on the record of that key
SetValue(rows, conflict) ==
    [j \in 1..Len(rows) |->
        IF rows[j].start_time = conflict.start_time /\ rows[j].end_time = conflict.end_time
        THEN [rows[j] EXCEPT !.consumption_kwh = conflict.new_value]
        ELSE rows[j]]

\* main() shows a block for each conflict the import has just returned.
\* The user picks 'choice' in the n-th block and presses "Valider".  Only
\* "Nouvelle" touches the session: it looks the record up, overwrites its
\* value and commits.
handle_conflict_block(n, choice) ==
    /\ \/ last.op = "import" /\ last.status = "ok"
       \/ last.op = "resolve"
    /\ n \in 1..Len(last.conflicts)
    /\ LET conflict == last.conflicts[n]
           found == Matching(View, conflict.start_time, conflict.end_time)
           status == IF TakesNew(choice) /\ Len(found) > 1
                     THEN "MultipleResultsFound" ELSE "ok"
       IN  /\ IF TakesNew(choice) /\ Len(found) = 1
              THEN /\ db' = SetValue(View, conflict)
                   /\ tx' = <<>>
              ELSE UNCHANGED <<db, tx>>
           /\ last' = Done("resolve", <<>>, status, last.conflicts, View, choice)
    /\ UNCHANGED <<weather_vars, talon_vars, metric_vars, process_vars>>

\* ------------------------------------------------------------- get_session
\* A rerun of main() opens a new session: what the abandoned session had
\* not committed is never committed.
get_session ==
    /\ last.op = "none"
    /\ tx' = <<>>
    /\ last' = Done("session", <<>>, "ok", <<>>, View, "")
    /\ UNCHANGED db
    /\ UNCHANGED <<weather_vars, talon_vars, metric_vars, process_vars>>

\* --------------------------------------------------------- specifications
\* The application as it is wired: the Streamlit front end only calls
\* import_data_with_duplicates_management and handle_conflict_block.
Next ==
    \/ \E batch \in Batches : import_file(batch)
    \/ import_again
    \/ main_continue
    \/ \E n \in 1..MaxBatch, choice \in Choices : handle_conflict_block(n, choice)
    \/ get_session

Spec == Init /\ [][Next]_vars

\* The same with import_data_to_db, which calculations.py also offers.
NextBulk ==
    \/ \E batch \in Batches : import_file(batch)
    \/ import_again
    \/ main_continue
    \/ \E n \in 1..MaxBatch, choice \in Choices : handle_conflict_block(n, choice)
    \/ get_session
    \/ \E batch \in Batches : import_data_to_db(batch)

SpecBulk == Init /\ [][NextBulk]_vars

\* ------------------------------------------------------------------ claims
\* What the parser makes of a row that parses.
StartOf(row) == StrptimeVal(row.Debut)
EndOf(row) == StrptimeVal(row.Fin)
ValueOf(row) == FloatVal(ReplaceComma(row.Valeur))

SameKey(r1, r2) == StartOf(r1) = StartOf(r2) /\ EndOf(r1) = EndOf(r2)

\* The records of 'rows' that have the key of 'row'.
Stored(rows, row) ==
    SelectSeq(rows, LAMBDA r : r.start_time = StartOf(row) /\ r.end_time = EndOf(row))

\* The conflict an incoming row makes with a stored value.
ConflictOf(row, existing_value) ==
    [start_time |-> StartOf(row), end_time |-> EndOf(row),
     existing_value |-> existing_value, new_value |-> ValueOf(row)]

Count(seq, x) == Cardinality({n \in 1..Len(seq) : seq[n] = x})

LastImportOk == last.op = "import" /\ last.status = "ok"

\* Row i of the last batch met a stored reading of its key whose value
\* differs by the tolerance or more.
DiffersFromStore(i) ==
    LET row == last.batch[i]
        stored == Stored(last.view, row)
    IN  /\ Len(stored) = 1
        /\ Abs(stored[1].consumption_kwh - ValueOf(row)) >= TOLERANCE

\* Row i of the last batch met a stored reading of its key whose value
\* differs by less than the tolerance.
WithinTolerance(i) ==
    LET row == last.batch[i]
        stored == Stored(last.view, row)
    IN  /\ Len(stored) = 1
        /\ Abs(stored[1].consumption_kwh - ValueOf(row)) < TOLERANCE

\* C1: after an import that returned, every row whose key was in the store
\* with a value differing by 1e-6 or more has its conflict in the returned
\* list, once per such row, with existing_value the stored value and
\* new_value the incoming one, and the store still holds exactly the old
\* reading for that key.
C1_ConflictKeepsStore ==
    LastImportOk =>
        \A i \in 1..Len(last.batch) :
            DiffersFromStore(i) =>
                LET row == last.batch[i]
                    old == Stored(last.view, row)[1]
                    c   == ConflictOf(row, old.consumption_kwh)
                IN  /\ Count(last.conflicts, c)
                         = Cardinality({j \in 1..Len(last.batch) :
                                           /\ SameKey(last.batch[j], row)
                                           /\ ValueOf(last.batch[j]) = ValueOf(row)})
                    /\ Stored(db, row) = <<old>>

C1_Witness ==
    /\ LastImportOk
    /\ \E i \in 1..Len(last.batch) :
          /\ DiffersFromStore(i)
          /\ Len(last.conflicts) > 0
          /\ Stored(db, last.batch[i]) # <<>>

\* Row i of the last batch is the first of its key and the key was not in
\* the store: no reading of the key exists when the row is processed.
NewKey(i) ==
    /\ Stored(last.view, last.batch[i]) = <<>>
    /\ \A j \in 1..(i - 1) : ~SameKey(last.batch[j], last.batch[i])

\* C2: after an import that returned, every row that found no reading of
\* its key is committed with its key and its value.
C2_NewRowPersisted ==
    LastImportOk =>
        \A i \in 1..Len(last.batch) :
            NewKey(i) =>
                \E n \in 1..Len(db) :
                    /\ db[n].start_time = StartOf(last.batch[i])
                    /\ db[n].end_time = EndOf(last.batch[i])
                    /\ db[n].consumption_kwh = ValueOf(last.batch[i])

C2_Witness ==
    /\ LastImportOk
    /\ last.view # <<>>
    /\ \E i \in 1..Len(last.batch) : NewKey(i) /\ Len(db) > Len(last.view)

\* C3: a row whose key is stored with a value less than 1e-6 away makes no
\* conflict, adds no row and leaves the stored value as it was; a row
\* whose value is 1e-6 or more away is reported as a conflict.
C3_ToleranceNoOp ==
    LastImportOk =>
        \A i \in 1..Len(last.batch) :
            LET row == last.batch[i]
                old == Stored(last.view, row)[1]
            IN  /\ WithinTolerance(i) =>
                      /\ \A n \in 1..Len(last.conflicts) :
                            ~(/\ last.conflicts[n].start_time = StartOf(row)
                              /\ last.conflicts[n].end_time = EndOf(row)
                              /\ last.conflicts[n].new_value = ValueOf(row))
                      /\ Stored(db, row) = <<old>>
                /\ DiffersFromStore(i) =>
                      \E n \in 1..Len(last.conflicts) :
                          last.conflicts[n] = ConflictOf(row, old.consumption_kwh)

\* A batch with a row strictly inside the tolerance (but not equal) and a
\* row exactly 1e-6 away from the stored value.
C3_Witness ==
    /\ LastImportOk
    /\ \E i, j \in 1..Len(last.batch) :
          /\ WithinTolerance(i)
          /\ Stored(last.view, last.batch[i])[1].consumption_kwh # ValueOf(last.batch[i])
          /\ DiffersFromStore(j)
          /\ Abs(Stored(last.view, last.batch[j])[1].consumption_kwh
                 - ValueOf(last.batch[j])) = TOLERANCE

\* The value row i of the last batch is compared with: the stored one, or
\* the value of the first row of the batch with that key.
Earlier(i) == {j \in 1..(i - 1) : SameKey(last.batch[j], last.batch[i])}

HasReading(i) == Stored(last.view, last.batch[i]) # <<>> \/ Earlier(i) # {}

ReadingValue(i) ==
    IF Stored(last.view, last.batch[i]) # <<>>
    THEN Stored(last.view, last.batch[i])[1].consumption_kwh
    ELSE ValueOf(last.batch[CHOOSE j \in Earlier(i) : \A k \in Earlier(i) : j <= k])

ConflictingRows ==
    SelectSeq([i \in 1..Len(last.batch) |-> i],
              LAMBDA i : HasReading(i)
                         /\ Abs(ReadingValue(i) - ValueOf(last.batch[i])) >= TOLERANCE)

\* C4: the returned list is the list of the conflicts of the conflicting
\* rows, one each, in the order of the rows in the batch.
C4_ConflictsInInputOrder ==
    LastImportOk =>
        last.conflicts = [n \in 1..Len(ConflictingRows) |->
                            ConflictOf(last.batch[ConflictingRows[n]],
                                       ReadingValue(ConflictingRows[n]))]

C4_Witness ==
    /\ LastImportOk
    /\ Len(last.conflicts) >= 2
    /\ last.conflicts[1] # last.conflicts[2]

\* C5: an import given the same batch as the successful import right
\* before it commits no row and returns the conflicts of the first pass,
\* no other.
C5_SecondPassIdempotent ==
    (LastImportOk /\ last.repeat) =>
        /\ db = last.view
        /\ last.conflicts = last.prior

C5_Witness ==
    /\ LastImportOk
    /\ last.repeat
    /\ last.conflicts # <<>>
    /\ \E i, j \in 1..Len(last.batch) : i # j /\ SameKey(last.batch[i], last.batch[j])

\* C6: no committed reading was accepted by an import call that failed.
C6_BatchIsOneTransaction ==
    \A n \in 1..Len(db) : ~db[n].orphan

\* C7: whatever happens to the other rows of the batch, a row that parses
\* and whose key is new is committed by the import.
C7_RowLevelIsolation ==
    last.op = "import" =>
        \A i \in 1..Len(last.batch) :
            (RowOk(last.batch[i]) /\ Stored(last.view, last.batch[i]) = <<>>) =>
                Stored(db, last.batch[i]) # <<>>

\* C8: no two committed readings have the same (start_time, end_time), and
\* no lookup finds more than one row.
C8_KeyUnique ==
    /\ \A m, n \in 1..Len(db) :
          (db[m].start_time = db[n].start_time /\ db[m].end_time = db[n].end_time) => m = n
    /\ last.status # "MultipleResultsFound"

\* C9: every committed reading has start_time < end_time and a
\* consumption that is not negative.
C9_ReadingInvariant ==
    \A n \in 1..Len(db) :
        db[n].start_time < db[n].end_time /\ db[n].consumption_kwh >= 0

\* C10: a step keeps every committed reading; its value changes only in a
\* conflict resolution with choice "Nouvelle".
C10_OnlyNouvelleChanges ==
    [][\A n \in 1..Len(db) :
          /\ n <= Len(db')
          /\ db'[n].start_time = db[n].start_time
          /\ db'[n].end_time = db[n].end_time
          /\ \/ db'[n].consumption_kwh = db[n].consumption_kwh
             \/ last'.op = "resolve" /\ last'.choice = "Nouvelle"]_vars

\* An import that met a stored reading of another value, reported the
\* conflict and returned.
C10_Witness ==
    /\ LastImportOk
    /\ last.conflicts # <<>>
    /\ \E i \in 1..Len(last.batch) : DiffersFromStore(i)
    /\ db # <<>>

\* =================================================== weather gap filler
\* The start times an import can bring: the first and the last half hour
\* of each day.
ReadingTimes == {d * SlotsPerDay + s : d \in Days, s \in {0, SlotsPerDay - 1}}

\* datetime.date()
date(t) == t \div SlotsPerDay

get_consumption_days(recs) == {date(t) : t \in recs}

get_weather_date(w) == {date(t) : t \in w}

\* fetch_weather_data(start_date, end_date): a frame with one row per hour
\* of the range, or, when the call to the provider raises, pd.DataFrame():
\* a frame without columns.
fetch_weather_data(start_date, end_date, outcome) ==
    IF outcome = "error"
    THEN [columns |-> {}, time |-> {}]
    ELSE [columns |-> {"time", "variables"},
          time |-> {d * SlotsPerDay + 2 * h : d \in start_date..end_date, h \in 0..23}]

\* resample("30min"): every half hour from the first row to the last.
Resample30min(times) ==
    IF times = {} THEN {}
    ELSE LET lo == CHOOSE t \in times : \A u \in times : t <= u
             hi == CHOOSE t \in times : \A u \in times : u <= t
         IN  lo..hi

\* resample_weather_data(weather_df)
resample_weather_data(weather_df) ==
    IF "time" \notin weather_df.columns
    THEN [status |-> "ValueError", columns |-> weather_df.columns, time |-> {}]
    ELSE [status |-> "ok", columns |-> weather_df.columns,
          time |-> Resample30min(weather_df.time)]

\* save_weather_data_to_db that inserts nothing.
save_weather_data_to_db_dropped(w, weather_df) ==
    [status |-> "ok", weather |-> w]

\* save_weather_data_to_db: one INSERT of all rows and a commit; column
\* 'time' is unique.
save_weather_data_to_db(w, weather_df) ==
    IF weather_df.time \cap w # {}
    THEN [status |-> "IntegrityError", weather |-> w]
    ELSE [status |-> "ok", weather |-> w \cup weather_df.time]

\* The loop of integrate_weather_with_consumption over the missing days,
\* in the order the set yields them.  Nothing catches what a step raises.
RECURSIVE IntegrateLoop(_, _, _, _, _)
IntegrateLoop(order, i, w, requested, provider) ==
    IF i > Len(order)
    THEN [status |-> "ok", weather |-> w, requested |-> requested]
    ELSE
      LET day == order[i]
          asked == Append(requested, [start_date |-> day, end_date |-> day])
          weather_data == fetch_weather_data(day, day, provider[day])
          weather_resampled == resample_weather_data(weather_data)
          saved == save_weather_data_to_db(w, weather_resampled)
      IN
      IF weather_resampled.status # "ok"
      THEN [status |-> weather_resampled.status, weather |-> w, requested |-> asked]
      ELSE IF saved.status # "ok"
      THEN [status |-> saved.status, weather |-> w, requested |-> asked]
      ELSE IntegrateLoop(order, i + 1, saved.weather, asked, provider)

\* The orders in which a for loop can go through a set.
Orders(S) ==
    {o \in [1..Cardinality(S) -> S] : \A i, j \in 1..Cardinality(S) : o[i] = o[j] => i = j}

\* One run of integrate_weather_with_consumption(session, latitude,
\* longitude); 'provider' is what the provider does for each day.
integrate_weather_with_consumption(order, provider) ==
    LET days == get_consumption_days(reading_times) \ get_weather_date(weather)
        res == IntegrateLoop(order, 1, weather, <<>>, provider)
    IN  /\ order \in Orders(days)
        /\ weather' = res.weather
        /\ wlast' = [op |-> "integrate", missing |-> days, order |-> order,
                     provider |-> provider, status |-> res.status,
                     requested |-> res.requested, before |-> weather,
                     follows |-> (wlast.op = "integrate" /\ wlast.status = "ok")]
        /\ UNCHANGED reading_times
        /\ UNCHANGED <<import_vars, talon_vars, metric_vars, process_vars>>

\* An import stores a reading that starts at t.
import_reading(t) ==
    /\ t \notin reading_times
    /\ reading_times' = reading_times \cup {t}
    /\ wlast' = NoRun
    /\ UNCHANGED weather
    /\ UNCHANGED <<import_vars, talon_vars, metric_vars, process_vars>>

NextWeather ==
    \/ \E t \in ReadingTimes : import_reading(t)
    \/ \E order \in UNION {Orders(S) : S \in SUBSET Days},
          provider \in [Days -> Outcomes] :
            integrate_weather_with_consumption(order, provider)

SpecWeather == Init /\ [][NextWeather]_vars

\* The day was asked for in the run.
Requested(d) == \E i \in 1..Len(wlast.requested) : wlast.requested[i].start_date = d

\* C11: in a run of integrate_weather_with_consumption, a missing day for
\* which the provider fails is skipped without raising: the run completes
\* and every missing day the provider has data for has weather afterwards.
C11_FailedDaySkipped ==
    wlast.op = "integrate" =>
        /\ wlast.status = "ok"
        /\ \A d \in wlast.missing :
              wlast.provider[d] = "data" => d \in get_weather_date(weather)

\* C12: a run requests exactly the days with consumption and without
\* weather, each once and with start_date = end_date.
C12_RequestsExactlyMissing ==
    wlast.op = "integrate" =>
        /\ \A d \in Days : Requested(d) <=> d \in wlast.missing
        /\ Len(wlast.requested) = Cardinality(wlast.missing)
        /\ \A i \in 1..Len(wlast.requested) :
              wlast.requested[i].start_date = wlast.requested[i].end_date

\* The run completed and the provider had data for every day it asked for.
CompletedWithData ==
    /\ wlast.op = "integrate"
    /\ wlast.status = "ok"
    /\ \A i \in 1..Len(wlast.requested) :
          wlast.provider[wlast.requested[i].start_date] = "data"

\* C27: after a run that completed with data for every requested day,
\* every day with a consumption reading has a weather sample, and a run
\* right after it requests no day and leaves the weather table as it is.
C27_GapFillingConverges ==
    /\ CompletedWithData =>
          get_consumption_days(reading_times) \subseteq get_weather_date(weather)
    /\ (wlast.op = "integrate" /\ wlast.follows) =>
          /\ wlast.status = "ok"
          /\ wlast.requested = <<>>
          /\ weather = wlast.before

\* The second of two runs, the first of which filled every day of the model.
C27_Witness ==
    /\ wlast.op = "integrate"
    /\ wlast.follows
    /\ wlast.requested = <<>>
    /\ get_consumption_days(reading_times) = Days
    /\ get_weather_date(weather) = Days

\* ======================================================= base load (talon)
\* The length of the longest series of the base-load model.
MaxN == 21

\* A result: what a function returns, or the exception it raises.
Ok(value) == [status |-> "ok", value |-> value]
Raised(exception) == [status |-> exception, value |-> 0]

\* list[i] of Python and Series.iloc[i] of pandas: positions from 0, a
\* negative position counts from the end, IndexError outside.
PyIndex(list, i) ==
    LET n == Len(list)
    IN  IF i >= 0 /\ i < n THEN Ok(list[i + 1])
        ELSE IF i < 0 /\ -i <= n THEN Ok(list[n + i + 1])
        ELSE Raised("IndexError")

\* list.sort() and Series.sort_values(): ascending.
RECURSIVE SortInsert(_, _)
SortInsert(sorted, x) ==
    IF sorted = <<>> THEN <<x>>
    ELSE IF x <= Head(sorted) THEN <<x>> \o sorted
    ELSE <<Head(sorted)>> \o SortInsert(Tail(sorted), x)

RECURSIVE SortAsc(_)
SortAsc(list) ==
    IF list = <<>> THEN <<>> ELSE SortInsert(SortAsc(Tail(list)), Head(list))

\* calculate_base_load with the position rounded to the nearest integer.
calculate_base_load_rounded(consumptions_list) ==
    IF consumptions_list = <<>>
    THEN Ok(0)
    ELSE PyIndex(SortAsc(consumptions_list), (Len(consumptions_list) * 5 + 50) \div 100)

\* calculate_base_load(session) on the values the query returns.
\* int(len(consumptions) * 0.05) is the integer part of len / 20 (the
\* float product never reaches across an integer for the lengths at hand).
calculate_base_load(consumptions_list) ==
    IF consumptions_list = <<>>
    THEN Ok(0)
    ELSE PyIndex(SortAsc(consumptions_list), (Len(consumptions_list) * 5) \div 100)

\* compute_talon_on_df with the position one too low.
compute_talon_on_df_below(frame) ==
    IF frame = <<>>
    THEN Ok(0)
    ELSE LET sorted_values == SortAsc([i \in 1..Len(frame) |-> frame[i].consumption_kwh])
         IN  PyIndex(sorted_values, (Len(sorted_values) * 5) \div 100 - 1)

\* compute_talon_on_df(df)
compute_talon_on_df(frame) ==
    IF frame = <<>>
    THEN Ok(0)
    ELSE LET sorted_values == SortAsc([i \in 1..Len(frame) |-> frame[i].consumption_kwh])
         IN  PyIndex(sorted_values, (Len(sorted_values) * 5) \div 100)

\* The sum of f over a finite set.
RECURSIVE SetSum(_, _)
SetSum(S, f) ==
    IF S = {} THEN 0
    ELSE LET x == CHOOSE y \in S : TRUE IN f[x] + SetSum(S \ {x}, f)

\* The number of values of the bag.
BagSize(bag) == SetSum(DOMAIN bag, bag)

\* The values of the bag as the list the store returns them in: here from
\* the largest to the smallest.
BagList(bag) ==
    LET above(v) == SetSum({u \in DOMAIN bag : u > v}, bag)
    IN  [i \in 1..BagSize(bag) |->
            CHOOSE v \in DOMAIN bag : above(v) < i /\ i <= above(v) + bag[v]]

\* The same values as the column consumption_kwh of a frame.
BagFrame(bag) ==
    LET list == BagList(bag) IN [i \in 1..Len(list) |-> [consumption_kwh |-> list[i]]]

\* One more reading of value v; both functions are evaluated on the series.
\* 'was' keeps what they returned before the reading.
add_consumption(v) ==
    /\ BagSize(consumptions) < MaxN
    /\ consumptions' = [consumptions EXCEPT ![v] = @ + 1]
    /\ talons' = [op |-> "computed", added |-> v,
                  was |-> IF talons.op = "computed"
                          THEN <<talons.base_load, talons.talon>> ELSE <<>>,
                  base_load |-> calculate_base_load(BagList(consumptions')),
                  talon |-> compute_talon_on_df(BagFrame(consumptions'))]
    /\ UNCHANGED <<import_vars, weather_vars, metric_vars, process_vars>>

\* Both functions are evaluated before any reading exists.
base_load_of_empty ==
    /\ talons.op = "none"
    /\ talons' = [op |-> "computed", added |-> 0, was |-> <<>>,
                  base_load |-> calculate_base_load(BagList(consumptions)),
                  talon |-> compute_talon_on_df(BagFrame(consumptions))]
    /\ UNCHANGED consumptions
    /\ UNCHANGED <<import_vars, weather_vars, metric_vars, process_vars>>

NextTalon ==
    \/ \E v \in SeriesValues : add_consumption(v)
    \/ base_load_of_empty

SpecTalon == Init /\ [][NextTalon]_vars

\* How many values of the bag are smaller than v.
CountBelow(bag, v) == SetSum({u \in DOMAIN bag : u < v}, bag)

\* 'result' is the value at position floor(0.05 * n) of the n values of the
\* bag in ascending order, and 0 when the bag is empty.
AtFifthPercentile(bag, result) ==
    LET n == BagSize(bag)
    IN  IF n = 0
        THEN result = Ok(0)
        ELSE /\ result.status = "ok"
             /\ result.value \in DOMAIN bag
             /\ \E k \in 0..n :
                   /\ 20 * k <= n
                   /\ n < 20 * (k + 1)
                   /\ CountBelow(bag, result.value) <= k
                   /\ k < CountBelow(bag, result.value) + bag[result.value]

\* C19: the base load is the value at position floor(0.05 * n) of the
\* values sorted ascending, 0.0 for n = 0, and calculate_base_load and
\* compute_talon_on_df return the same value for the same values.
C19_BaseLoadIsFifthPercentile ==
    talons.op = "computed" =>
        /\ AtFifthPercentile(consumptions, talons.base_load)
        /\ AtFifthPercentile(consumptions, talons.talon)
        /\ talons.base_load = talons.talon

\* Twenty values or more, and the base load is not the smallest of them.
C19_Witness ==
    /\ talons.op = "computed"
    /\ BagSize(consumptions) >= 20
    /\ talons.base_load = talons.talon
    /\ \E u \in SeriesValues : consumptions[u] > 0 /\ u < talons.base_load.value

\* The reading added last came on top of a non-empty series and was not
\* below the base load of that series.
AddedAboveBaseLoad ==
    /\ talons.op = "computed"
    /\ talons.was # <<>>
    /\ BagSize(consumptions) >= 2
    /\ talons.added >= talons.was[1].value
    /\ talons.added >= talons.was[2].value

\* C20: adding a value that is not below the base load of a non-empty
\* series never lowers the base load, however many values were added.
C20_BaseLoadMonotone ==
    AddedAboveBaseLoad =>
        /\ talons.base_load.status = "ok"
        /\ talons.talon.status = "ok"
        /\ talons.base_load.value >= talons.was[1].value
        /\ talons.talon.value >= talons.was[2].value

\* Such an addition that moves the position to the next value: the base
\* load rises.
C20_Witness ==
    /\ AddedAboveBaseLoad
    /\ talons.base_load.value > talons.was[1].value
    /\ talons.talon.value > talons.was[2].value

\* ================================================================ metrics
\* The series the metric functions are given: at most MaxSamples readings
\* of one day, in the order of their start times (the queries order by
\* start_time).  Times are minutes after midnight, consumption is in tenths
\* of a kWh (the store can hold a negative reading), radiation in W/m2.
MaxSamples == 2

SampleTimes == {360, 720, 1320, 1380}

ConsumptionValues == {-10, 10, 20}

\* A float of a pandas column: a number or NaN.
NaN == [nan |-> TRUE, v |-> 0]
Num(x) == [nan |-> FALSE, v |-> x]

\* shortwave_radiation after the left join: NaN when no weather row has
\* the time of the reading.
RadiationValues == {NaN, Num(0), Num(250)}

Samples ==
    [time : SampleTimes, consumption_kwh : ConsumptionValues,
     shortwave_radiation : RadiationValues]

\* What the sidebar of the Streamlit page can save.
SettingTimes == {360, 1320}
HpCosts == {2700}
HcCosts == {2000}

\* Values of column solar_wc of the settings row (Wc).
SolarWc == {0, 10000}

\* ------------------------------------------------------------ pandas, SQL
RECURSIVE SeqSum(_)
SeqSum(values) ==
    IF values = <<>> THEN 0 ELSE Head(values) + SeqSum(Tail(values))

\* Series.sum(): NaN is skipped.
RECURSIVE SumSkipNa(_)
SumSkipNa(column) ==
    IF column = <<>> THEN 0
    ELSE (IF Head(column).nan THEN 0 ELSE Head(column).v) + SumSkipNa(Tail(column))

\* a - b on floats
Sub(a, b) == IF a.nan \/ b.nan THEN NaN ELSE Num(a.v - b.v)

\* df.loc[col < 0, col] = 0: NaN < 0 is False.
ZeroWhereNegative(a) == IF ~a.nan /\ a.v < 0 THEN Num(0) ELSE a

\* DataFrame.min(axis=1) on two columns: NaN is skipped.
RowMin(a, b) ==
    IF a.nan THEN b
    ELSE IF b.nan THEN a
    ELSE IF a.v <= b.v THEN a ELSE b

\* func.sum over the selected rows: NULL when there is none.
SqlSum(values) ==
    IF values = <<>> THEN [null |-> TRUE, v |-> 0]
    ELSE [null |-> FALSE, v |-> SeqSum(values)]

\* ------------------------------------------------------- calculations.py
\* The filter with the end of the period included.
InPeriod_closed(start_time, start_dt, end_dt) ==
    start_time >= start_dt /\ start_time <= end_dt

\* The filter of calculate_total_consumption.
InPeriod(start_time, start_dt, end_dt) ==
    start_time >= start_dt /\ start_time < end_dt

\* calculate_total_consumption returning the scalar of the query as it is.
calculate_total_consumption_scalar(rows, start_dt, end_dt) ==
    LET selected == SelectSeq(rows, LAMBDA r : InPeriod(r.time, start_dt, end_dt))
    IN  SqlSum([i \in 1..Len(selected) |-> selected[i].consumption_kwh])

\* calculate_total_consumption(session, start_dt, end_dt)
calculate_total_consumption(rows, start_dt, end_dt) ==
    LET selected == SelectSeq(rows, LAMBDA r : InPeriod(r.time, start_dt, end_dt))
        total == SqlSum([i \in 1..Len(selected) |-> selected[i].consumption_kwh])
    IN  IF ~total.null /\ total.v # 0 THEN total ELSE [null |-> FALSE, v |-> 0]

\* ------------------------------------------------------------- metrics.py
\* in_hp with the end of the window included.
in_hp_closed(time_of_day, hp_start, hp_end) ==
    IF hp_start < hp_end
    THEN time_of_day >= hp_start /\ time_of_day <= hp_end
    ELSE time_of_day >= hp_start \/ time_of_day <= hp_end

\* in_hp of compute_cost_hp_hc in metrics.py
in_hp(time_of_day, hp_start, hp_end) ==
    IF hp_start < hp_end
    THEN time_of_day >= hp_start /\ time_of_day < hp_end
    ELSE time_of_day >= hp_start \/ time_of_day < hp_end

\* The loop of compute_cost_hp_hc in metrics.py.
RECURSIVE CostLoop(_, _, _, _, _, _, _)
CostLoop(frame, i, total_cost, hp_cost, hc_cost, hp_start, hp_end) ==
    IF i > Len(frame) THEN total_cost
    ELSE LET time_of_day == frame[i].time
             cost == frame[i].consumption_kwh
                       * (IF in_hp(time_of_day, hp_start, hp_end) THEN hp_cost ELSE hc_cost)
         IN  CostLoop(frame, i + 1, total_cost + cost, hp_cost, hc_cost, hp_start, hp_end)

\* compute_cost_hp_hc(df, hp_cost, hc_cost, hp_start, hp_end) of metrics.py
compute_cost_hp_hc(frame, hp_cost, hc_cost, hp_start, hp_end) ==
    IF frame = <<>> THEN 0
    ELSE CostLoop(frame, 1, 0, hp_cost, hc_cost, hp_start, hp_end)

\* compute_all_metrics(df, hp_cost, hc_cost, hp_start, hp_end)
compute_all_metrics(frame, hp_cost, hc_cost, hp_start, hp_end) ==
    IF frame = <<>>
    THEN [status |-> "ok", talon |-> 0, total_conso |-> 0, cost |-> 0]
    ELSE LET talon_val == compute_talon_on_df(frame)
         IN  [status |-> talon_val.status,
              talon |-> talon_val.value,
              total_conso |-> SeqSum([i \in 1..Len(frame) |-> frame[i].consumption_kwh]),
              cost |-> compute_cost_hp_hc(frame, hp_cost, hc_cost, hp_start, hp_end)]

\* ------------------------------------------------------- streamlit_app.py
\* in_hp_front without the branch of the window that wraps midnight.
in_hp_front_sameday(time, hp_start, hp_end) ==
    time >= hp_start /\ time < hp_end

\* in_hp of compute_cost_hp_hc in streamlit_app.py
in_hp_front(time, hp_start, hp_end) ==
    IF hp_start < hp_end
    THEN time >= hp_start /\ time < hp_end
    ELSE time >= hp_start \/ time < hp_end

\* The loop of compute_cost_hp_hc in streamlit_app.py.
RECURSIVE CostLoopFront(_, _, _, _, _, _, _)
CostLoopFront(frame, i, total_cost, hp_cost, hc_cost, hp_start, hp_end) ==
    IF i > Len(frame) THEN total_cost
    ELSE LET time == frame[i].time
             cost == frame[i].consumption_kwh
                       * (IF in_hp_front(time, hp_start, hp_end) THEN hp_cost ELSE hc_cost)
         IN  CostLoopFront(frame, i + 1, total_cost + cost, hp_cost, hc_cost, hp_start, hp_end)

\* compute_cost_hp_hc(df, hp_cost, hc_cost, hp_start, hp_end) of
\* streamlit_app.py: no test for the empty frame.
front_compute_cost_hp_hc(frame, hp_cost, hc_cost, hp_start, hp_end) ==
    CostLoopFront(frame, 1, 0, hp_cost, hc_cost, hp_start, hp_end)

\* ----------------------------------------------------------- dash_app/app.py
\* compute_solar_production(df, settings): zero when the frame has no
\* column shortwave_radiation, else radiation * (solar_wc / 1000)
\* * (solar_efficiency / 100) / 1000 kWh, here in tenths of a kWh.
compute_solar_production(series, s, weather_records) ==
    [i \in 1..Len(series) |->
        IF ~weather_records THEN Num(0)
        ELSE IF series[i].shortwave_radiation.nan THEN NaN
        ELSE Num((series[i].shortwave_radiation.v * s.solar_wc * s.solar_efficiency)
                   \div 10000000)]

\* df["is_hp"] of update_graph_and_metrics
is_hp(hour) == 6 <= hour /\ hour < 22

\* A cell of column is_hp: a bool, or, once resample().mean() has averaged
\* the column, the float num / den or NaN.
BoolCell(b) == [nan |-> FALSE, num |-> IF b THEN 1 ELSE 0, den |-> 1]

\* cell == True and cell == False of Python: 1.0 equals True, 0.0 equals
\* False, any other float and NaN equal neither.
EqualsBool(cell, flag) ==
    ~cell.nan /\ cell.num = (IF flag THEN cell.den ELSE 0)

\* The frame update_graph_and_metrics builds with aggregation "30min":
\* the readings, left-joined with the weather rows when there are any,
\* with the columns solar_production, hour and is_hp.
DashFrame(series, s, weather_records) ==
    LET solar == compute_solar_production(series, s, weather_records)
    IN  [i \in 1..Len(series) |->
            [time |-> series[i].time,
             consumption_kwh |-> Num(series[i].consumption_kwh),
             solar_production |-> solar[i],
             hour |-> series[i].time \div 60,
             is_hp |-> BoolCell(is_hp(series[i].time \div 60))]]

\* Column 'col' of the rows with the given is_hp.
ColumnWhere(frame, col, flag) ==
    LET rows == SelectSeq(frame, LAMBDA r : EqualsBool(r.is_hp, flag))
    IN  [i \in 1..Len(rows) |-> rows[i][col]]

ColumnOf(frame, col) == [i \in 1..Len(frame) |-> frame[i][col]]

\* compute_hp_hc_values(df, col)
compute_hp_hc_values(frame, col) ==
    IF frame = <<>> THEN <<0, 0, 0>>
    ELSE <<SumSkipNa(ColumnWhere(frame, col, TRUE)),
           SumSkipNa(ColumnWhere(frame, col, FALSE)),
           SumSkipNa(ColumnOf(frame, col))>>

\* compute_cost_hp_hc(df, settings) of the Dash app
dash_compute_cost_hp_hc(frame, s) ==
    IF frame = <<>> THEN <<0, 0, 0>>
    ELSE LET values == compute_hp_hc_values(frame, "consumption_kwh")
             cost_hp == values[1] * s.hp_cost
             cost_hc == values[2] * s.hc_cost
         IN  <<cost_hp, cost_hc, cost_hp + cost_hc>>

\* The frame with the column consumption - solar, negative values set to 0.
WithNet(frame) ==
    [i \in 1..Len(frame) |->
        [is_hp |-> frame[i].is_hp,
         net_conso |-> ZeroWhereNegative(Sub(frame[i].consumption_kwh,
                                             frame[i].solar_production))]]

\* compute_cost_with_pv_hp_hc(df, settings)
compute_cost_with_pv_hp_hc(frame, s) ==
    IF frame = <<>> THEN <<0, 0, 0>>
    ELSE LET df_calc == WithNet(frame)
             hp_val == SumSkipNa(ColumnWhere(df_calc, "net_conso", TRUE))
             hc_val == SumSkipNa(ColumnWhere(df_calc, "net_conso", FALSE))
             cost_hp == hp_val * s.hp_cost
             cost_hc == hc_val * s.hc_cost
         IN  <<cost_hp, cost_hc, cost_hp + cost_hc>>

\* compute_solar_loss_hp_hc(df)
compute_solar_loss_hp_hc(frame) ==
    IF frame = <<>> THEN <<0, 0, 0>>
    ELSE LET df_calc ==
                 [i \in 1..Len(frame) |->
                     [is_hp |-> frame[i].is_hp,
                      lost_solar |-> ZeroWhereNegative(Sub(frame[i].solar_production,
                                                           frame[i].consumption_kwh))]]
         IN  <<SumSkipNa(ColumnWhere(df_calc, "lost_solar", TRUE)),
               SumSkipNa(ColumnWhere(df_calc, "lost_solar", FALSE)),
               SumSkipNa(ColumnOf(df_calc, "lost_solar"))>>

\* A ratio in percent: 100 * num / den.
Percent(num, den) == [num |-> num, den |-> den]
ZeroPercent == [num |-> 0, den |-> 1]

\* sum of min(consumption, production) row by row
UsedPv(frame) ==
    SumSkipNa([i \in 1..Len(frame) |->
                  RowMin(frame[i].consumption_kwh, frame[i].solar_production)])

\* compute_auto_consumption_ratio(df)
compute_auto_consumption_ratio(frame) ==
    IF frame = <<>> THEN ZeroPercent
    ELSE LET total_pv == SumSkipNa(ColumnOf(frame, "solar_production"))
         IN  IF total_pv <= 0 THEN ZeroPercent
             ELSE Percent(UsedPv(frame), total_pv)

\* compute_solar_coverage_ratio(df)
compute_solar_coverage_ratio(frame) ==
    IF frame = <<>> THEN ZeroPercent
    ELSE LET total_conso == SumSkipNa(ColumnOf(frame, "consumption_kwh"))
         IN  IF total_conso <= 0 THEN ZeroPercent
             ELSE Percent(UsedPv(frame), total_conso)

\* ----------------------------------------------------------------- actions
\* An import stores a reading later than the ones the series has.
import_sample(sample) ==
    /\ Len(df) < MaxSamples
    /\ IF df = <<>> THEN TRUE ELSE sample.time > df[Len(df)].time
    /\ df' = Append(df, sample)
    /\ metrics' = NoMetrics
    /\ UNCHANGED settings
    /\ UNCHANGED <<import_vars, weather_vars, talon_vars, process_vars>>

\* "Sauvegarder les parametres" in the sidebar of the Streamlit page.
save_settings(hp_cost, hc_cost, hp_start, hp_end) ==
    /\ settings' = [settings EXCEPT !.hp_cost = hp_cost, !.hc_cost = hc_cost,
                                    !.hp_start = hp_start, !.hp_end = hp_end]
    /\ metrics' = NoMetrics
    /\ UNCHANGED df
    /\ UNCHANGED <<import_vars, weather_vars, talon_vars, process_vars>>

\* The installed solar capacity: a column of the settings row that the
\* Dash app reads and that no page writes.
settings_solar_wc(wc) ==
    /\ settings' = [settings EXCEPT !.solar_wc = wc]
    /\ metrics' = NoMetrics
    /\ UNCHANGED df
    /\ UNCHANGED <<import_vars, weather_vars, talon_vars, process_vars>>

\* The metric functions are evaluated on the series and the settings, as
\* the Streamlit page and the Dash callback call them.  'weather_records'
\* says whether the weather query returned rows.
compute_metrics(weather_records) ==
    /\ metrics.op = "none"
    /\ IF weather_records THEN TRUE
       ELSE \A i \in 1..Len(df) : df[i].shortwave_radiation.nan
    /\ LET s == settings
           frame == DashFrame(df, s, weather_records)
       IN  metrics' =
             [op |-> "computed",
              weather_records |-> weather_records,
              in_hp |-> [i \in 1..Len(df) |-> in_hp(df[i].time, s.hp_start, s.hp_end)],
              in_hp_front |-> [i \in 1..Len(df) |->
                                  in_hp_front(df[i].time, s.hp_start, s.hp_end)],
              base_load |-> calculate_base_load(
                                [i \in 1..Len(df) |-> df[i].consumption_kwh]),
              total_consumption |-> calculate_total_consumption(df, 360, 1380),
              talon |-> compute_talon_on_df(df),
              cost |-> compute_cost_hp_hc(df, s.hp_cost, s.hc_cost, s.hp_start, s.hp_end),
              cost_front |-> front_compute_cost_hp_hc(df, s.hp_cost, s.hc_cost,
                                                      s.hp_start, s.hp_end),
              all_metrics |-> compute_all_metrics(df, s.hp_cost, s.hc_cost,
                                                  s.hp_start, s.hp_end),
              frame |-> frame,
              net_consumption |-> ColumnOf(WithNet(frame), "net_conso"),
              hp_hc_values |-> compute_hp_hc_values(frame, "consumption_kwh"),
              cost_hp_hc |-> dash_compute_cost_hp_hc(frame, s),
              cost_with_pv |-> compute_cost_with_pv_hp_hc(frame, s),
              solar_loss |-> compute_solar_loss_hp_hc(frame),
              auto_consumption_ratio |-> compute_auto_consumption_ratio(frame),
              solar_coverage_ratio |-> compute_solar_coverage_ratio(frame)]
    /\ UNCHANGED <<df, settings>>
    /\ UNCHANGED <<import_vars, weather_vars, talon_vars, process_vars>>

NextMetrics ==
    \/ \E sample \in Samples : import_sample(sample)
    \/ \E hp_cost \in HpCosts, hc_cost \in HcCosts, hp_start, hp_end \in SettingTimes :
          save_settings(hp_cost, hc_cost, hp_start, hp_end)
    \/ \E wc \in SolarWc : settings_solar_wc(wc)
    \/ \E weather_records \in BOOLEAN : compute_metrics(weather_records)

SpecMetrics == Init /\ [][NextMetrics]_vars

\* Membership of the peak window as the specification states it.
InWindow(t, hp_start, hp_end) ==
    \/ hp_start < hp_end /\ hp_start <= t /\ t < hp_end
    \/ hp_start >= hp_end /\ (t >= hp_start \/ t < hp_end)

Computed == metrics.op = "computed"

\* C13: a reading is classified HP iff its start time is in the window
\* [hp_start, hp_end), which wraps midnight when hp_start >= hp_end: with
\* 22:00-06:00 a reading at 23:00 is HP and one at 12:00 is HC, a reading
\* at hp_end is HC, and with hp_start = hp_end every reading is HP.
C13_PeakClassification ==
    Computed =>
        \A i \in 1..Len(df) :
            LET t == df[i].time
                hp_start == settings.hp_start
                hp_end == settings.hp_end
            IN  /\ metrics.in_hp[i] <=> InWindow(t, hp_start, hp_end)
                /\ metrics.in_hp_front[i] <=> InWindow(t, hp_start, hp_end)
                /\ (hp_start = 1320 /\ hp_end = 360 /\ t = 1380) =>
                      metrics.in_hp[i] /\ metrics.in_hp_front[i]
                /\ (hp_start = 1320 /\ hp_end = 360 /\ t = 720) =>
                      ~metrics.in_hp[i] /\ ~metrics.in_hp_front[i]
                /\ (hp_start # hp_end /\ t = hp_end) =>
                      ~metrics.in_hp[i] /\ ~metrics.in_hp_front[i]
                /\ hp_start = hp_end =>
                      metrics.in_hp[i] /\ metrics.in_hp_front[i]

\* The window 22:00-06:00 with a reading at 06:00, which is HC, and one at
\* 23:00, which is HP.
C13_Witness ==
    /\ Computed
    /\ settings.hp_start = 1320
    /\ settings.hp_end = 360
    /\ \E i, j \in 1..Len(df) :
          /\ df[i].time = 360
          /\ ~metrics.in_hp[i]
          /\ df[j].time = 1380
          /\ metrics.in_hp[j]

\* The cost of the readings inside (flag TRUE) or outside the window.
PartCost(flag) ==
    SeqSum([i \in 1..Len(df) |->
               IF InWindow(df[i].time, settings.hp_start, settings.hp_end) = flag
               THEN df[i].consumption_kwh
                      * (IF flag THEN settings.hp_cost ELSE settings.hc_cost)
               ELSE 0])

\* Readings of 1.0 kWh at 06:00 and 2.0 kWh at 22:00, window 06:00-22:00,
\* 0.27 and 0.20 EUR per kWh.
CostScenario ==
    /\ Len(df) = 2
    /\ df[1].time = 360 /\ df[1].consumption_kwh = 10
    /\ df[2].time = 1320 /\ df[2].consumption_kwh = 20
    /\ settings.hp_start = 360 /\ settings.hp_end = 1320
    /\ settings.hp_cost = 2700 /\ settings.hc_cost = 2000

\* C14: compute_cost_hp_hc returns the sum of consumption_kwh * hp_cost
\* over the readings in the window plus consumption_kwh * hc_cost over the
\* others; in the scenario the parts are 0.27 and 0.40 and the total 0.67;
\* the implementations of metrics.py and streamlit_app.py agree.
C14_CostIsSum ==
    Computed =>
        /\ metrics.cost = PartCost(TRUE) + PartCost(FALSE)
        /\ metrics.cost_front = metrics.cost
        /\ CostScenario =>
              /\ PartCost(TRUE) = 27000
              /\ PartCost(FALSE) = 40000
              /\ metrics.cost = 67000

C14_Witness ==
    /\ Computed
    /\ CostScenario
    /\ metrics.cost = 67000
    /\ metrics.cost_front = 67000

\* C15: the is_hp flag the Dash app gives a sample is the membership of the
\* sample's start time in the window of the stored settings.
C15_DashUsesSettingsWindow ==
    Computed =>
        \A i \in 1..Len(df) :
            EqualsBool(metrics.frame[i].is_hp, TRUE)
              <=> InWindow(df[i].time, settings.hp_start, settings.hp_end)

\* C16: the net consumption of a sample is max(consumption - solar, 0),
\* never negative, and the HP, HC and total cost with PV are between 0 and
\* the corresponding cost without PV.
C16_PvCostWithinBounds ==
    Computed =>
        /\ \A i \in 1..Len(df) :
              LET net == metrics.net_consumption[i]
                  solar == metrics.frame[i].solar_production
              IN  /\ ~net.nan => net.v >= 0
                  /\ ~solar.nan =>
                        net = Num(IF df[i].consumption_kwh - solar.v > 0
                                  THEN df[i].consumption_kwh - solar.v ELSE 0)
        /\ \A k \in 1..3 :
              /\ 0 <= metrics.cost_with_pv[k]
              /\ metrics.cost_with_pv[k] <= metrics.cost_hp_hc[k]

\* The ratio is between 0 and 100 percent.
InRange(ratio) == 0 <= ratio.num /\ ratio.num <= ratio.den

\* C17: both ratios are in [0, 100] for every series, also when readings
\* have no weather sample.
C17_RatiosInRange ==
    Computed =>
        /\ InRange(metrics.auto_consumption_ratio)
        /\ InRange(metrics.solar_coverage_ratio)

\* C18: on an empty series or store every metric is zero and nothing
\* raises; a ratio is also zero when its denominator is zero.
C18_EmptyIsZero ==
    Computed =>
        /\ metrics.base_load.status = "ok"
        /\ metrics.talon.status = "ok"
        /\ metrics.all_metrics.status = "ok"
        /\ ~metrics.total_consumption.null
        /\ df = <<>> =>
              /\ metrics.base_load = Ok(0)
              /\ metrics.talon = Ok(0)
              /\ metrics.total_consumption = [null |-> FALSE, v |-> 0]
              /\ metrics.cost = 0
              /\ metrics.cost_front = 0
              /\ metrics.all_metrics
                    = [status |-> "ok", talon |-> 0, total_conso |-> 0, cost |-> 0]
              /\ metrics.hp_hc_values = <<0, 0, 0>>
              /\ metrics.cost_hp_hc = <<0, 0, 0>>
              /\ metrics.cost_with_pv = <<0, 0, 0>>
              /\ metrics.solar_loss = <<0, 0, 0>>
              /\ metrics.auto_consumption_ratio = ZeroPercent
              /\ metrics.solar_coverage_ratio = ZeroPercent
        /\ SumSkipNa(ColumnOf(metrics.frame, "solar_production")) = 0 =>
              metrics.auto_consumption_ratio = ZeroPercent
        /\ SumSkipNa(ColumnOf(metrics.frame, "consumption_kwh")) = 0 =>
              metrics.solar_coverage_ratio = ZeroPercent

\* The metrics of the empty series.
C18_Witness ==
    /\ Computed
    /\ df = <<>>
    /\ metrics.base_load = Ok(0)
    /\ metrics.total_consumption.v = 0
    /\ metrics.solar_coverage_ratio = ZeroPercent

\* ------------------------------------------------- totals over a period
\* The bounds of the periods calculate_total_consumption is asked for.
PeriodTimes == {360, 720, 1380}

\* calculate_total_consumption is called for [a, b), [a, m) and [m, b).
total_over_periods(a, m, b) ==
    /\ metrics.op = "none"
    /\ a <= m
    /\ m <= b
    /\ metrics' = [op |-> "totals", a |-> a, m |-> m, b |-> b,
                   whole |-> calculate_total_consumption(df, a, b),
                   first |-> calculate_total_consumption(df, a, m),
                   second |-> calculate_total_consumption(df, m, b)]
    /\ UNCHANGED <<df, settings>>
    /\ UNCHANGED <<import_vars, weather_vars, talon_vars, process_vars>>

NextTotals ==
    \/ \E sample \in Samples : import_sample(sample)
    \/ \E a, m, b \in PeriodTimes : total_over_periods(a, m, b)

SpecTotals == Init /\ [][NextTotals]_vars

\* The consumption of the readings that start at or after 'from' and
\* before 'to'.
ConsumptionBetween(from, to) ==
    SeqSum([i \in 1..Len(df) |->
               IF from <= df[i].time /\ df[i].time < to
               THEN df[i].consumption_kwh ELSE 0])

C26_EnergyConserved ==
    Computed =>
        LET used == UsedPv(metrics.frame)
            total_conso == SumSkipNa(ColumnOf(metrics.frame, "consumption_kwh"))
            total_net == SumSkipNa(metrics.net_consumption)
            total_solar == SumSkipNa(ColumnOf(metrics.frame, "solar_production"))
        IN  /\ total_conso = total_net + used
            /\ total_solar = metrics.solar_loss[3] + used
            /\ \A i \in 1..Len(df) :
                  metrics.frame[i].solar_production.nan =>
                      metrics.net_consumption[i] = Num(df[i].consumption_kwh)

\* ------------------------------------------------- the Dash callback
\* The choices of the dropdown "aggregation".
Aggregations == {"30min", "H", "D", "W", "M"}

RECURSIVE Factorial(_)
Factorial(n) == IF n <= 1 THEN 1 ELSE n * Factorial(n - 1)

\* The numbers of a resampled frame are means; they are kept exact by
\* counting them in 1 / AggScale of the unit of the series.
AggScale == Factorial(MaxSamples)

\* mean() of a float column over the rows of a bucket: NaN is skipped, the
\* mean of nothing is NaN.
MeanCell(cells) ==
    LET known == SelectSeq(cells, LAMBDA c : ~c.nan)
    IN  IF known = <<>> THEN NaN
        ELSE Num((SumSkipNa(known) * AggScale) \div Len(known))

\* mean() of column is_hp over the rows of a bucket: the share of True.
MeanBool(cells) ==
    IF cells = <<>> THEN [nan |-> TRUE, num |-> 0, den |-> 1]
    ELSE [nan |-> FALSE,
          num |-> Len(SelectSeq(cells, LAMBDA c : EqualsBool(c, TRUE))),
          den |-> Len(cells)]

\* The row resample().mean() makes of the rows of one bucket.
BucketRow(label, rows) ==
    [time |-> label,
     consumption_kwh |-> MeanCell(ColumnOf(rows, "consumption_kwh")),
     solar_production |-> MeanCell(ColumnOf(rows, "solar_production")),
     hour |-> MeanCell([i \in 1..Len(rows) |-> Num(rows[i].hour)]),
     is_hp |-> MeanBool(ColumnOf(rows, "is_hp"))]

\* df.resample(rule).mean(): one row per hour from the first row to the
\* last for "H", one row for the day, week or month of the series else.
Resample(frame, aggregation) ==
    IF aggregation = "30min" THEN frame
    ELSE IF aggregation = "H"
    THEN LET first == frame[1].hour
             last_hour == frame[Len(frame)].hour
         IN  [k \in 1..(last_hour - first + 1) |->
                 BucketRow((first + k - 1) * 60,
                           SelectSeq(frame, LAMBDA r : r.hour = first + k - 1))]
    ELSE <<BucketRow(0, frame)>>

\* update_graph_and_metrics for a period that holds the whole series,
\* without zoom: the frame is built, resampled, and the HP/HC functions
\* are evaluated on it.
update_graph_and_metrics(aggregation, weather_records) ==
    /\ metrics.op = "none"
    /\ df # <<>>
    /\ IF weather_records THEN TRUE
       ELSE \A i \in 1..Len(df) : df[i].shortwave_radiation.nan
    /\ LET frame == Resample(DashFrame(df, settings, weather_records), aggregation)
       IN  metrics' =
             [op |-> "dash",
              aggregation |-> aggregation,
              weather_records |-> weather_records,
              frame |-> frame,
              hp_hc_values |-> compute_hp_hc_values(frame, "consumption_kwh"),
              production |-> compute_hp_hc_values(frame, "solar_production"),
              cost_hp_hc |-> dash_compute_cost_hp_hc(frame, settings),
              cost_with_pv |-> compute_cost_with_pv_hp_hc(frame, settings),
              solar_loss |-> compute_solar_loss_hp_hc(frame)]
    /\ UNCHANGED <<df, settings>>
    /\ UNCHANGED <<import_vars, weather_vars, talon_vars, process_vars>>

NextDash ==
    \/ \E sample \in Samples : import_sample(sample)
    \/ \E wc \in SolarWc : settings_solar_wc(wc)
    \/ \E aggregation \in Aggregations, weather_records \in BOOLEAN :
          update_graph_and_metrics(aggregation, weather_records)

SpecDash == Init /\ [][NextDash]_vars

\* The HP part and the HC part of the triple add up to its total.
Partition(triple) == triple[1] + triple[2] = triple[3]

\* C25: for every frame and every aggregation the HP part plus the HC part
\* of the consumption, the production, the two costs and the solar loss is
\* the total.
C25_HpHcPartition ==
    metrics.op = "dash" =>
        /\ Partition(metrics.hp_hc_values)
        /\ Partition(metrics.production)
        /\ Partition(metrics.cost_hp_hc)
        /\ Partition(metrics.cost_with_pv)
        /\ Partition(metrics.solar_loss)

\* ---------------------------------------------------- the settings sidebar
\* What the user can type into the two cost fields.
TypedCosts == {-2700, 2000, 2700}

\* st.number_input(value=..., min_value=...): the widget does not take a
\* number below min_value and keeps the value it shows.
number_input(value, min_value, typed) ==
    IF typed < min_value THEN value ELSE typed

\* The user fills the sidebar and presses "Sauvegarder les parametres":
\* the four widget values are written to the settings row and committed.
\* 'typed' and 'before' keep what the user typed and the row as it was.
sidebar_save(typed_hp_cost, typed_hc_cost, typed_hp_start, typed_hp_end) ==
    LET hp_cost == number_input(settings.hp_cost, 0, typed_hp_cost)
        hc_cost == number_input(settings.hc_cost, 0, typed_hc_cost)
    IN  /\ settings' = [settings EXCEPT !.hp_cost = hp_cost, !.hc_cost = hc_cost,
                                        !.hp_start = typed_hp_start,
                                        !.hp_end = typed_hp_end]
        /\ metrics' = [op |-> "saved",
                       typed |-> [hp_cost |-> typed_hp_cost, hc_cost |-> typed_hc_cost,
                                  hp_start |-> typed_hp_start, hp_end |-> typed_hp_end],
                       before |-> settings]
        /\ UNCHANGED df
        /\ UNCHANGED <<import_vars, weather_vars, talon_vars, process_vars>>

NextSettings ==
    \E typed_hp_cost, typed_hc_cost \in TypedCosts,
       typed_hp_start, typed_hp_end \in SettingTimes \cup {settings.hp_start, settings.hp_end} :
        sidebar_save(typed_hp_cost, typed_hc_cost, typed_hp_start, typed_hp_end)

SpecSettings == Init /\ [][NextSettings]_vars

\* C22: a settings update with a value outside its range is rejected and
\* the stored settings stay as they were; every stored settings row has
\* costs >= 0 and solar_efficiency in [0, 100].
C22_InvalidUpdateRejected ==
    /\ (metrics.op = "saved"
        /\ (metrics.typed.hp_cost < 0 \/ metrics.typed.hc_cost < 0)) =>
          settings = metrics.before
    /\ settings.hp_cost >= 0
    /\ settings.hc_cost >= 0
    /\ settings.solar_efficiency >= 0
    /\ settings.solar_efficiency <= 100

\* ------------------------------------------- get_or_create_settings, shared
\* A script run of the Streamlit page or a callback of the Dash page
\* begins.  The Dash callback returns before it reaches
\* get_or_create_settings when table 'consumption' has no rows.
begin_call(c) ==
    /\ callers[c].pc = "idle"
    /\ c = "dash" => db # <<>>
    /\ callers' = [callers EXCEPT ![c] = [Idle EXCEPT !.pc = "query"]]
    /\ UNCHANGED <<settings_table, imports, write_lock>>
    /\ UNCHANGED <<import_vars, weather_vars, talon_vars, metric_vars>>

\* settings = session.query(Settings).first(): the call returns the first
\* row when there is one.
query_first(c) ==
    /\ callers[c].pc = "query"
    /\ callers' = [callers EXCEPT ![c] =
                     IF settings_table = <<>>
                     THEN [Idle EXCEPT !.pc = "create"]
                     ELSE [pc |-> "have", row |-> 1, created |-> FALSE,
                           before |-> settings_table, after |-> settings_table]]
    /\ UNCHANGED <<settings_table, imports, write_lock>>
    /\ UNCHANGED <<import_vars, weather_vars, talon_vars, metric_vars>>

\* if not settings: the row of defaults is added and committed, and returned.
add_and_commit(c) ==
    /\ callers[c].pc = "create"
    /\ settings_table' = Append(settings_table, get_or_create_settings)
    /\ callers' = [callers EXCEPT ![c] =
                     [pc |-> "have", row |-> Len(settings_table) + 1, created |-> TRUE,
                      before |-> <<>>, after |-> settings_table']]
    /\ UNCHANGED <<imports, write_lock>>
    /\ UNCHANGED <<import_vars, weather_vars, talon_vars, metric_vars>>

\* The user of a Streamlit session saves the sidebar: the row the session
\* holds is changed and committed.
streamlit_save(c, hp_start) ==
    /\ c # "dash"
    /\ callers[c].pc = "have"
    /\ settings_table' = [settings_table EXCEPT ![callers[c].row].hp_start = hp_start]
    /\ UNCHANGED <<callers, imports, write_lock>>
    /\ UNCHANGED <<import_vars, weather_vars, talon_vars, metric_vars>>

\* The user of a Streamlit session imports a file of one reading into the
\* empty table 'consumption'.
streamlit_import(c) ==
    /\ c # "dash"
    /\ callers[c].pc = "have"
    /\ db = <<>>
    /\ db' = <<ConsumptionRecord(0, 1, 10)>>
    /\ UNCHANGED <<tx, last>>
    /\ UNCHANGED <<weather_vars, talon_vars, metric_vars, process_vars>>

\* The script run or the callback ends.
end_call(c) ==
    /\ callers[c].pc = "have"
    /\ callers' = [callers EXCEPT ![c] = Idle]
    /\ UNCHANGED <<settings_table, imports, write_lock>>
    /\ UNCHANGED <<import_vars, weather_vars, talon_vars, metric_vars>>

NextSingleton ==
    \E c \in Callers :
        \/ begin_call(c)
        \/ query_first(c)
        \/ add_and_commit(c)
        \/ \E hp_start \in SettingTimes : streamlit_save(c, hp_start)
        \/ streamlit_import(c)
        \/ end_call(c)

SpecSingleton == Init /\ [][NextSingleton]_vars

\* C23: whatever the interleaving of the calls of get_or_create_settings,
\* table 'settings' holds exactly one row once a call has returned, and a
\* call that finds a row returns it and leaves the table as it found it.
C23_SettingsSingleton ==
    /\ Len(settings_table) <= 1
    /\ \A c \in Callers :
          callers[c].pc = "have" =>
            /\ Len(settings_table) = 1
            /\ ~callers[c].created =>
                  /\ callers[c].row = 1
                  /\ callers[c].after = callers[c].before

\* ------------------------------------------ two import sessions side by side
\* The rows of the files the two sessions import: well-formed rows on the
\* two keys, and on the first key two values that are further apart than
\* the tolerance.
ConcurrentRows ==
    {r \in RawRows :
        /\ RowOk(r)
        /\ \/ r.Valeur = "0.000001"
           \/ r.Valeur = "-0,0000001" /\ r.Debut = "01/01/2024 00:00:00"}

ConcurrentBatches == SeqsUpTo(ConcurrentRows, MaxBatch) \ {<<>>}

\* The session may write to the database file: SQLite gives the write lock
\* to one connection at a time, from its first INSERT to its COMMIT.
MayWrite(s) == write_lock \in {0, s}

\* A session calls import_data_with_duplicates_management(df, session).
begin_import(s, batch) ==
    /\ imports[s].pc = "idle"
    /\ imports' = [imports EXCEPT ![s] = [NotImporting EXCEPT !.pc = "lookup",
                                                              !.batch = batch]]
    /\ UNCHANGED <<db, tx, last, settings_table, callers, write_lock>>
    /\ UNCHANGED <<weather_vars, talon_vars, metric_vars>>

\* existing_record = session.query(...).filter_by(...).one_or_none() for the
\* row at hand.  The session first flushes the records it holds (autoflush),
\* which takes the write lock; the query then sees the committed rows and
\* the rows of the session's own transaction.
lookup(s) ==
    LET me  == imports[s]
        row == me.batch[me.i]
        own == me.flushed \o me.pending
        found == Matching(db \o own, StrptimeVal(row.Debut), StrptimeVal(row.Fin))
    IN  /\ me.pc = "lookup"
        /\ IF me.pending = <<>> THEN TRUE ELSE MayWrite(s)
        /\ write_lock' = IF me.pending = <<>> THEN write_lock ELSE s
        /\ imports' = [imports EXCEPT ![s] =
                         [me EXCEPT !.flushed = own, !.pending = <<>>,
                                    !.existing = IF Len(found) > 1 THEN <<>> ELSE found,
                                    !.pc = IF Len(found) > 1 THEN "raised" ELSE "insert"]]
        /\ UNCHANGED <<db, tx, last, settings_table, callers>>
        /\ UNCHANGED <<weather_vars, talon_vars, metric_vars>>

\* What follows the lookup: the conflict is noted when the existing value
\* differs, and the record is added to the session when nothing was found.
insert(s) ==
    LET me  == imports[s]
        row == me.batch[me.i]
        consumption == FloatVal(ReplaceComma(row.Valeur))
        start_time  == StrptimeVal(row.Debut)
        end_time    == StrptimeVal(row.Fin)
    IN  /\ me.pc = "insert"
        /\ imports' = [imports EXCEPT ![s] =
             [me EXCEPT
                !.pending = IF me.existing = <<>>
                            THEN Append(me.pending,
                                        ConsumptionRecord(start_time, end_time, consumption))
                            ELSE me.pending,
                !.conflicts = IF me.existing # <<>>
                                 /\ ~Identical(me.existing[1].consumption_kwh, consumption)
                              THEN AppendConflict(me.conflicts, start_time, end_time,
                                                  me.existing[1].consumption_kwh, consumption)
                              ELSE me.conflicts,
                !.existing = <<>>,
                !.i = me.i + 1,
                !.pc = IF me.i + 1 > Len(me.batch) THEN "commit" ELSE "lookup"]]
        /\ UNCHANGED <<db, tx, last, settings_table, callers, write_lock>>
        /\ UNCHANGED <<weather_vars, talon_vars, metric_vars>>

\* session.commit() after the loop: the records of the session are flushed
\* and the transaction is committed.
commit(s) ==
    LET me == imports[s]
    IN  /\ me.pc = "commit"
        /\ IF me.pending = <<>> THEN TRUE ELSE MayWrite(s)
        /\ db' = db \o me.flushed \o me.pending
        /\ write_lock' = IF write_lock = s \/ me.pending # <<>> THEN 0 ELSE write_lock
        /\ imports' = [imports EXCEPT ![s] =
                         [me EXCEPT !.flushed = <<>>, !.pending = <<>>, !.pc = "done"]]
        /\ UNCHANGED <<tx, last, settings_table, callers>>
        /\ UNCHANGED <<weather_vars, talon_vars, metric_vars>>

\* The other session holds the write lock for longer than the connection
\* waits: the flush raises OperationalError (database is locked).
database_is_locked(s) ==
    LET me == imports[s]
    IN  /\ me.pc \in {"lookup", "commit"}
        /\ me.pending # <<>>
        /\ ~MayWrite(s)
        /\ imports' = [imports EXCEPT ![s] = [me EXCEPT !.pending = <<>>, !.pc = "raised"]]
        /\ UNCHANGED <<db, tx, last, settings_table, callers, write_lock>>
        /\ UNCHANGED <<weather_vars, talon_vars, metric_vars>>

\* The call has returned or raised and the script run ends; a transaction
\* the session left open is rolled back.
end_import(s) ==
    /\ imports[s].pc \in {"done", "raised"}
    /\ imports' = [imports EXCEPT ![s] = NotImporting]
    /\ write_lock' = IF write_lock = s THEN 0 ELSE write_lock
    /\ UNCHANGED <<db, tx, last, settings_table, callers>>
    /\ UNCHANGED <<weather_vars, talon_vars, metric_vars>>

NextConcurrent ==
    \E s \in ImportSessions :
        \/ \E batch \in ConcurrentBatches : begin_import(s, batch)
        \/ lookup(s)
        \/ insert(s)
        \/ commit(s)
        \/ database_is_locked(s)
        \/ end_import(s)

SpecConcurrent == Init /\ [][NextConcurrent]_vars

\* C24: with two import sessions running side by side, no two committed
\* readings have the same (start_time, end_time).
C24_NoDuplicateCommitted ==
    \A j, k \in 1..Len(db) :
        (j # k) => ~(/\ db[j].start_time = db[k].start_time
                     /\ db[j].end_time = db[k].end_time)

====
